---- MODULE Spec2Model ----
(***************************************************************************)
(* Klarna connector transformers                                           *)
(* (crates/router/src/connector/klarna/transformers.rs).                   *)
(*                                                                         *)
(* The transformers are pure conversions.  The state machine below feeds   *)
(* them with inputs drawn from bounded sets and runs the three pipelines   *)
(* the connector runs:                                                     *)
(*   authorize : Normalizer -> request transformer -> gateway -> response  *)
(*   session   : request transformer -> gateway -> response transformer    *)
(*   auth_type : credential extraction                                     *)
(*                                                                         *)
(* i64 values are kept at their full width.  TLC's integers are 32 bits    *)
(* wide, so a 64-bit value is a little-endian sequence of bytes in two's   *)
(* complement, sign-extended to MathBytes bytes so that the mathematical   *)
(* product u16 * i64 (up to 80 bits) and sums of such products are         *)
(* representable and can be compared with what the code computes.          *)
(***************************************************************************)
EXTENDS Integers, Sequences, FiniteSets, TLC

\* ------------------------------------------------------------------------
\* Bounds
\* ------------------------------------------------------------------------
MaxLines == 2

\* ------------------------------------------------------------------------
\* Fixed-width integers
\* ------------------------------------------------------------------------
I64Bytes == 8
MathBytes == I64Bytes + 4
U16Max == 65535

\* the two's complement bytes of a small integer n (|n| < 2^31)
FromInt(n) ==
    [i \in 1..MathBytes |->
        IF i <= 4 THEN (n \div (256 ^ (i - 1))) % 256
        ELSE IF n < 0 THEN 255 ELSE 0]

I64_MAX ==
    [i \in 1..MathBytes |->
        IF i < I64Bytes THEN 255 ELSE IF i = I64Bytes THEN 127 ELSE 0]

\* does the mathematical value m lie in the range of i64
FitsI64(m) ==
    \/ m[I64Bytes] < 128 /\ \A i \in (I64Bytes + 1)..MathBytes : m[i] = 0
    \/ m[I64Bytes] >= 128 /\ \A i \in (I64Bytes + 1)..MathBytes : m[i] = 255

\* the i64 that the low 64 bits of m denote
WrapI64(m) ==
    [i \in 1..MathBytes |->
        IF i <= I64Bytes THEN m[i]
        ELSE IF m[I64Bytes] >= 128 THEN 255 ELSE 0]

RECURSIVE MulFrom(_, _, _, _)
MulFrom(q, v, i, carry) ==
    IF i > MathBytes THEN <<>>
    ELSE LET t == q * v[i] + carry
         IN  <<t % 256>> \o MulFrom(q, v, i + 1, t \div 256)

\* the mathematical product of an unsigned 16-bit q and v
Product(q, v) == MulFrom(q, v, 1, 0)

RECURSIVE AddFrom(_, _, _, _)
AddFrom(a, b, i, carry) ==
    IF i > MathBytes THEN <<>>
    ELSE LET t == a[i] + b[i] + carry
         IN  <<t % 256>> \o AddFrom(a, b, i + 1, t \div 256)

\* the mathematical sum of a and b (used to state properties)
Sum(a, b) == AddFrom(a, b, 1, 0)

Zero == FromInt(0)


\* ------------------------------------------------------------------------
\* Option and Result values
\* ------------------------------------------------------------------------
None == [tag |-> "None"]
Some(v) == [tag |-> "Some", value |-> v]

\* Option<String>::unwrap_or_default
unwrap_or_default(o) == IF o.tag = "Some" THEN o.value ELSE ""

Ok(v) == [tag |-> "Ok", value |-> v]
Err(e) == [tag |-> "Err", error |-> e]
\* the thread unwinds: neither Ok nor Err is returned
Panic == [tag |-> "Panic"]
NotRun == [tag |-> "NotRun"]

MissingRequiredField(field_name) ==
    [kind |-> "MissingRequiredField", field_name |-> field_name]
FailedToObtainAuthType == [kind |-> "FailedToObtainAuthType"]

\* ------------------------------------------------------------------------
\* Status Mapper
\* ------------------------------------------------------------------------
KlarnaFraudStatus == {"Accepted", "Pending"}

\* #[default] Pending
KlarnaFraudStatus_default == "Pending"

\* #[serde(rename_all = "UPPERCASE")]
KlarnaFraudStatus_deserialize(s) ==
    IF s = "ACCEPTED" THEN Ok("Accepted")
    ELSE IF s = "PENDING" THEN Ok("Pending")
    ELSE Err([kind |-> "ResponseDeserializationFailed"])

AttemptStatus_from_mutant(item) ==
    CASE item = "Accepted" -> "Charged"
      [] item = "Pending" -> "Charged"

\* impl From<KlarnaFraudStatus> for enums::AttemptStatus
AttemptStatus_from(item) ==
    CASE item = "Accepted" -> "Charged"
      [] item = "Pending" -> "Authorizing"

\* ------------------------------------------------------------------------
\* Normalizer
\* ------------------------------------------------------------------------
\* The tuple pattern binds four names for the five elements of the tuple:
\* the String (reference id) is not bound, and the name
\* connector_request_reference_id in the struct expression refers to no
\* element of the input.  unbound is the value that name stands for.
KlarnaRouterData_try_from(tuple, unbound) ==
    LET amount == tuple[3]
        router_data == tuple[4]
    IN  Ok([amount |-> amount,
            router_data |-> router_data,
            connector_request_reference_id |-> unbound])

\* ------------------------------------------------------------------------
\* Order lines
\* ------------------------------------------------------------------------
\* i64::from(data.quantity) * (data.amount) leaves the range of i64
mul_overflows(quantity, amount) == ~FitsI64(Product(quantity, amount))

\* the value of i64::from(data.quantity) * (data.amount) where it does not
\* panic: exact in range, the low 64 bits otherwise
i64_mul(quantity, amount) == WrapI64(Product(quantity, amount))

\* |data| OrderLines { .. }
OrderLines_of(data) ==
    [name |-> data.product_name,
     quantity |-> data.quantity,
     unit_price |-> data.amount,
     total_amount |-> i64_mul(data.quantity, data.amount)]

RECURSIVE order_lines_collect(_)
\* order_details.iter().map(..).collect()
order_lines_collect(order_details) ==
    IF order_details = <<>> THEN <<>>
    ELSE <<OrderLines_of(Head(order_details))>>
             \o order_lines_collect(Tail(order_details))

\* with overflow checks compiled in, an overflowing multiplication panics
order_lines_panics(order_details, overflow_checks) ==
    /\ overflow_checks
    /\ \E i \in 1..Len(order_details) :
           mul_overflows(order_details[i].quantity, order_details[i].amount)

\* ------------------------------------------------------------------------
\* Request transformers
\* ------------------------------------------------------------------------
KlarnaSessionRequest_try_from_mutant(item, overflow_checks) ==
    LET request == item.request
    IN  IF request.order_details.tag = "Some"
        THEN LET order_details == request.order_details.value
             IN  IF order_lines_panics(order_details, overflow_checks)
                 THEN Panic
                 ELSE Ok([intent |-> "Buy",
                          purchase_country |-> "US",
                          purchase_currency |-> request.currency,
                          order_amount |-> Zero,
                          locale |-> "en-US",
                          order_lines |-> order_lines_collect(order_details)])
        ELSE Err(MissingRequiredField("product_name"))

\* impl TryFrom<&types::PaymentsSessionRouterData> for KlarnaSessionRequest
KlarnaSessionRequest_try_from(item, overflow_checks) ==
    LET request == item.request
    IN  IF request.order_details.tag = "Some"
        THEN LET order_details == request.order_details.value
             IN  IF order_lines_panics(order_details, overflow_checks)
                 THEN Panic
                 ELSE Ok([intent |-> "Buy",
                          purchase_country |-> "US",
                          purchase_currency |-> request.currency,
                          order_amount |-> request.amount,
                          locale |-> "en-US",
                          order_lines |-> order_lines_collect(order_details)])
        ELSE Err(MissingRequiredField("product_name"))

\* impl TryFrom<&KlarnaRouterData<&types::PaymentsAuthorizeRouterData>>
\*     for KlarnaPaymentsRequest
\* item_response is what item.response denotes: it is not the field
\* connector_request_reference_id the Normalizer filled.
KlarnaPaymentsRequest_try_from(item, item_response, overflow_checks) ==
    LET request == item.router_data.request
        connector_request_reference_id ==
            unwrap_or_default(item_response.reference)
    IN  IF request.order_details.tag = "Some"
        THEN LET order_details == request.order_details.value
             IN  IF order_lines_panics(order_details, overflow_checks)
                 THEN Panic
                 ELSE Ok([purchase_country |-> "US",
                          purchase_currency |-> request.currency,
                          connector_request_reference_id |->
                              connector_request_reference_id,
                          order_amount |-> request.amount,
                          order_lines |-> order_lines_collect(order_details)])
        ELSE Err(MissingRequiredField("product_name"))

\* ------------------------------------------------------------------------
\* Response transformers
\* ------------------------------------------------------------------------
PaymentsSessionRouterData_try_from_mutant(item) ==
    LET response == item.response
    IN  Ok([item.data EXCEPT
              !.status = "Pending",
              !.response =
                  Ok([type |-> "SessionResponse",
                      session_token |->
                          [connector |-> "Klarna",
                           session_token |-> response.client_token,
                           session_id |-> response.session_id]])])

\* impl TryFrom<types::PaymentsSessionResponseRouterData<KlarnaSessionResponse>>
\*     for types::PaymentsSessionRouterData
PaymentsSessionRouterData_try_from(item) ==
    LET response == item.response
    IN  Ok([item.data EXCEPT
              !.response =
                  Ok([type |-> "SessionResponse",
                      session_token |->
                          [connector |-> "Klarna",
                           session_token |-> response.client_token,
                           session_id |-> response.session_id]])])

PaymentsAuthorizeRouterData_try_from_mutant(item) ==
    LET response == item.response
        connector_request_reference_id ==
            response.connector_request_reference_id
    IN  Ok([item.data EXCEPT
              !.response =
                  Ok([type |-> "TransactionResponse",
                      resource_id |->
                          [type |-> "ConnectorTransactionId",
                           id |-> connector_request_reference_id],
                      redirection_data |-> None,
                      mandate_reference |-> None,
                      connector_metadata |-> None,
                      network_txn_id |-> None,
                      connector_response_reference_id |->
                          Some(connector_request_reference_id)]),
              !.status = AttemptStatus_from(item.response.fraud_status)])

\* impl TryFrom<types::PaymentsResponseRouterData<KlarnaPaymentsResponse>>
\*     for types::PaymentsAuthorizeRouterData
PaymentsAuthorizeRouterData_try_from(item) ==
    LET response == item.response
        connector_request_reference_id ==
            response.connector_request_reference_id
    IN  Ok([item.data EXCEPT
              !.response =
                  Ok([type |-> "TransactionResponse",
                      resource_id |->
                          [type |-> "ConnectorTransactionId",
                           id |-> item.response.order_id],
                      redirection_data |-> None,
                      mandate_reference |-> None,
                      connector_metadata |-> None,
                      network_txn_id |-> None,
                      connector_response_reference_id |->
                          Some(connector_request_reference_id)]),
              !.status = AttemptStatus_from(item.response.fraud_status)])

\* ------------------------------------------------------------------------
\* Auth Extractor
\* ------------------------------------------------------------------------
KlarnaAuthType_try_from_mutant(auth_type) ==
    IF auth_type.variant \in {"HeaderKey", "BodyKey"}
    THEN Ok([basic_token |-> auth_type.api_key])
    ELSE Err(FailedToObtainAuthType)

\* impl TryFrom<&types::ConnectorAuthType> for KlarnaAuthType
KlarnaAuthType_try_from(auth_type) ==
    IF auth_type.variant = "HeaderKey"
    THEN Ok([basic_token |-> auth_type.api_key])
    ELSE Err(FailedToObtainAuthType)


\* ------------------------------------------------------------------------
\* Inputs
\* ------------------------------------------------------------------------
ProductNames == {"Widget", "Gadget"}
Quantities == {1, 2, U16Max}
UnitAmounts == {FromInt(-7), FromInt(500), I64_MAX}
RequestAmounts == {FromInt(1000), FromInt(993)}
Currencies == {"USD"}
CurrencyUnits == {"Base", "Minor"}
ReferenceIds == {"ref_1"}
OrderIds == {"ord_1"}
WireStatuses == {"ACCEPTED", "PENDING"}
Tokens == {"tok_1", "tok_2"}
SessionIds == {"sess_1"}
ApiKeys == {"key_1", "key_2"}

\* api_models::payments::OrderDetails: the fields the transformers read
OrderDetails ==
    [product_name : ProductNames, quantity : Quantities, amount : UnitAmounts]

SeqsUpTo(S, n) == UNION {[1..k -> S] : k \in 0..n}

\* Option<Vec<OrderDetails>>
OrderDetailsInputs ==
    {None} \cup {Some(od) : od \in SeqsUpTo(OrderDetails, MaxLines)}

\* types::RouterData as the platform hands it over: request, status and
\* response are the fields the transformers touch, payment_id stands for
\* every field the struct update ..item.data carries over
RouterDataInputs ==
    {[request |-> [amount |-> a, currency |-> c, order_details |-> od],
      status |-> "Started",
      response |-> Err([kind |-> "ErrorResponse"]),
      payment_id |-> "pay_1"] :
        a \in RequestAmounts, c \in Currencies, od \in OrderDetailsInputs}

\* types::ConnectorAuthType
ConnectorAuthTypes ==
    {[variant |-> "HeaderKey", api_key |-> k] : k \in ApiKeys}
    \cup {[variant |-> "BodyKey", api_key |-> k, key1 |-> k1] :
             k \in ApiKeys, k1 \in ApiKeys}
    \cup {[variant |-> "SignatureKey", api_key |-> k, key1 |-> k1,
           api_secret |-> k2] : k \in ApiKeys, k1 \in ApiKeys, k2 \in ApiKeys}
    \cup {[variant |-> "MultiAuthKey", api_key |-> k, key1 |-> k1,
           api_secret |-> k2, key2 |-> k3] :
             k \in ApiKeys, k1 \in ApiKeys, k2 \in ApiKeys, k3 \in ApiKeys}
    \cup {[variant |-> "NoKey"]}

\* ------------------------------------------------------------------------
\* State
\* ------------------------------------------------------------------------
VARIABLES
    flow,               \* which pipeline this behaviour runs
    pc,                 \* the position in the pipeline
    overflow_checks,    \* the build profile: are overflow checks compiled in
    router_data,        \* the canonical request context
    reference_id,       \* the reference id handed to the Normalizer
    item_response,      \* what item.response denotes in the request transformer
    klarna_router_data, \* the Normalizer's result
    payments_request,   \* the authorization request transformer's result
    payments_response,  \* the deserialized KlarnaPaymentsResponse
    authorize_result,   \* the authorization response transformer's result
    session_request,    \* the session request transformer's result
    session_response,   \* the deserialized KlarnaSessionResponse
    session_result,     \* the session response transformer's result
    auth_type,          \* the credential handed to the Auth Extractor
    klarna_auth_type    \* the Auth Extractor's result

vars == <<flow, pc, overflow_checks, router_data, reference_id, item_response,
          klarna_router_data, payments_request, payments_response,
          authorize_result, session_request, session_response,
          session_result, auth_type, klarna_auth_type>>

inputs == <<flow, overflow_checks, router_data, reference_id, item_response,
            auth_type>>

Init ==
    /\ pc = "start"
    /\ klarna_router_data = NotRun
    /\ payments_request = NotRun
    /\ payments_response = NotRun
    /\ authorize_result = NotRun
    /\ session_request = NotRun
    /\ session_response = NotRun
    /\ session_result = NotRun
    /\ klarna_auth_type = NotRun
    /\ \/ /\ flow = "authorize"
          /\ overflow_checks \in BOOLEAN
          /\ router_data \in RouterDataInputs
          /\ reference_id \in ReferenceIds
          /\ item_response \in
                 {[reference |-> r] :
                      r \in {None} \cup {Some(id) : id \in ReferenceIds}}
          /\ auth_type = NotRun
       \/ /\ flow = "session"
          /\ overflow_checks \in BOOLEAN
          /\ router_data \in RouterDataInputs
          /\ reference_id = ""
          /\ item_response = NotRun
          /\ auth_type = NotRun
       \/ /\ flow = "auth_type"
          /\ overflow_checks = FALSE
          /\ router_data = NotRun
          /\ reference_id = ""
          /\ item_response = NotRun
          /\ auth_type \in ConnectorAuthTypes

\* ------------------------------------------------------------------------
\* Authorization pipeline
\* ------------------------------------------------------------------------
\* KlarnaRouterData::try_from((currency_unit, currency, amount, req, ref))
Normalize ==
    /\ flow = "authorize"
    /\ pc = "start"
    /\ \E currency_unit \in CurrencyUnits, unbound \in ReferenceIds \cup {""} :
           klarna_router_data' =
               KlarnaRouterData_try_from(
                   <<currency_unit, router_data.request.currency,
                     router_data.request.amount, router_data, reference_id>>,
                   unbound)
    /\ pc' = "normalized"
    /\ UNCHANGED <<inputs, payments_request, payments_response,
                   authorize_result, session_request, session_response,
                   session_result, klarna_auth_type>>

\* KlarnaPaymentsRequest::try_from(&connector_router_data)
AuthorizeRequest ==
    /\ flow = "authorize"
    /\ pc = "normalized"
    /\ klarna_router_data.tag = "Ok"
    /\ payments_request' =
           KlarnaPaymentsRequest_try_from(klarna_router_data.value,
                                          item_response, overflow_checks)
    /\ pc' = "requested"
    /\ UNCHANGED <<inputs, klarna_router_data, payments_response,
                   authorize_result, session_request, session_response,
                   session_result, klarna_auth_type>>

\* the gateway answers a request; the body deserializes into a
\* KlarnaPaymentsResponse
GatewayAuthorize ==
    /\ flow = "authorize"
    /\ pc = "requested"
    /\ payments_request.tag = "Ok"
    /\ \E order_id \in OrderIds, status \in WireStatuses,
          reference \in
              {payments_request.value.connector_request_reference_id, "other"} :
           /\ KlarnaFraudStatus_deserialize(status).tag = "Ok"
           /\ payments_response' =
                  [order_id |-> order_id,
                   fraud_status |-> KlarnaFraudStatus_deserialize(status).value,
                   connector_request_reference_id |-> reference]
    /\ pc' = "responded"
    /\ UNCHANGED <<inputs, klarna_router_data, payments_request,
                   authorize_result, session_request, session_response,
                   session_result, klarna_auth_type>>

\* PaymentsAuthorizeRouterData::try_from(ResponseRouterData {response, data})
AuthorizeResponse ==
    /\ flow = "authorize"
    /\ pc = "responded"
    /\ authorize_result' =
           PaymentsAuthorizeRouterData_try_from(
               [response |-> payments_response, data |-> router_data])
    /\ pc' = "done"
    /\ UNCHANGED <<inputs, klarna_router_data, payments_request,
                   payments_response, session_request, session_response,
                   session_result, klarna_auth_type>>

\* ------------------------------------------------------------------------
\* Session pipeline
\* ------------------------------------------------------------------------
\* KlarnaSessionRequest::try_from(req)
SessionRequest ==
    /\ flow = "session"
    /\ pc = "start"
    /\ session_request' =
           KlarnaSessionRequest_try_from(router_data, overflow_checks)
    /\ pc' = "requested"
    /\ UNCHANGED <<inputs, klarna_router_data, payments_request,
                   payments_response, authorize_result, session_response,
                   session_result, klarna_auth_type>>

\* the gateway answers; the body deserializes into a KlarnaSessionResponse
GatewaySession ==
    /\ flow = "session"
    /\ pc = "requested"
    /\ session_request.tag = "Ok"
    /\ \E client_token \in Tokens, session_id \in SessionIds :
           session_response' =
               [client_token |-> client_token, session_id |-> session_id]
    /\ pc' = "responded"
    /\ UNCHANGED <<inputs, klarna_router_data, payments_request,
                   payments_response, authorize_result, session_request,
                   session_result, klarna_auth_type>>

\* PaymentsSessionRouterData::try_from(ResponseRouterData {response, data})
SessionResponse ==
    /\ flow = "session"
    /\ pc = "responded"
    /\ session_result' =
           PaymentsSessionRouterData_try_from(
               [response |-> session_response, data |-> router_data])
    /\ pc' = "done"
    /\ UNCHANGED <<inputs, klarna_router_data, payments_request,
                   payments_response, authorize_result, session_request,
                   session_response, klarna_auth_type>>

\* ------------------------------------------------------------------------
\* Credential extraction
\* ------------------------------------------------------------------------
\* KlarnaAuthType::try_from(auth_type)
ExtractAuth ==
    /\ flow = "auth_type"
    /\ pc = "start"
    /\ klarna_auth_type' = KlarnaAuthType_try_from(auth_type)
    /\ pc' = "done"
    /\ UNCHANGED <<inputs, klarna_router_data, payments_request,
                   payments_response, authorize_result, session_request,
                   session_response, session_result>>

Next ==
    \/ Normalize
    \/ AuthorizeRequest
    \/ GatewayAuthorize
    \/ AuthorizeResponse
    \/ SessionRequest
    \/ GatewaySession
    \/ SessionResponse
    \/ ExtractAuth

Spec == Init /\ [][Next]_vars

\* ------------------------------------------------------------------------
\* Properties
\* ------------------------------------------------------------------------
AuthorizeRequested ==
    flow = "authorize" /\ pc \in {"requested", "responded", "done"}
SessionRequested ==
    flow = "session" /\ pc \in {"requested", "responded", "done"}
AuthorizeDone == flow = "authorize" /\ pc = "done"
SessionDone == flow = "session" /\ pc = "done"
AuthDone == flow = "auth_type" /\ pc = "done"

\* the result of whichever request transformer has run
RequestResult ==
    IF flow = "authorize" THEN payments_request ELSE session_request

RequestTransformed == AuthorizeRequested \/ SessionRequested

RECURSIVE SumTotals(_)
\* the mathematical sum of the total_amount of the lines
SumTotals(lines) ==
    IF lines = <<>> THEN Zero
    ELSE Sum(Head(lines).total_amount, SumTotals(Tail(lines)))

\* C1: with order details absent, both request transformers return
\* MissingRequiredField { field_name: "product_name" } and no wire request;
\* with order details present they return a wire request and no error.
C1_MissingFieldRejection ==
    RequestTransformed =>
        IF router_data.request.order_details = None
        THEN RequestResult = Err(MissingRequiredField("product_name"))
        ELSE RequestResult.tag = "Ok"

\* C2: the wire order_lines map the canonical order details 1:1, in order,
\* copying name, quantity and unit_price, and every line with quantity >= 1
\* has total_amount = quantity * unit_price.
C2_LineItemsMapped ==
    (RequestTransformed /\ router_data.request.order_details.tag = "Some") =>
        /\ RequestResult.tag = "Ok"
        /\ LET order_details == router_data.request.order_details.value
               order_lines == RequestResult.value.order_lines
           IN  /\ Len(order_lines) = Len(order_details)
               /\ \A i \in 1..Len(order_details) :
                     /\ order_lines[i].name = order_details[i].product_name
                     /\ order_lines[i].quantity = order_details[i].quantity
                     /\ order_lines[i].unit_price = order_details[i].amount
                     /\ order_details[i].quantity >= 1 =>
                            order_lines[i].total_amount =
                                Product(order_details[i].quantity,
                                        order_details[i].amount)

C4_AuthorizeResponse ==
    AuthorizeDone =>
        /\ authorize_result.tag = "Ok"
        /\ LET data == authorize_result.value
           IN  /\ data.response =
                      Ok([type |-> "TransactionResponse",
                          resource_id |->
                              [type |-> "ConnectorTransactionId",
                               id |-> payments_response.order_id],
                          redirection_data |-> None,
                          mandate_reference |-> None,
                          connector_metadata |-> None,
                          network_txn_id |-> None,
                          connector_response_reference_id |->
                              Some(payments_response
                                       .connector_request_reference_id)])
               /\ data.status =
                      AttemptStatus_from(payments_response.fraud_status)
               /\ DOMAIN data = DOMAIN router_data
               /\ \A f \in DOMAIN router_data \ {"response", "status"} :
                      data[f] = router_data[f]

C4_Witness ==
    /\ AuthorizeDone
    /\ payments_response.order_id = "ord_1"
    /\ payments_response.fraud_status = "Pending"
    /\ authorize_result.tag = "Ok"
    /\ authorize_result.value.response.value.resource_id.id = "ord_1"
    /\ authorize_result.value.status = "Authorizing"

\* C5: the Auth Extractor succeeds exactly for the HeaderKey variant, with
\* basic_token = api_key; every other variant fails with
\* FailedToObtainAuthType.
C5_AuthNarrowing ==
    AuthDone =>
        IF auth_type.variant = "HeaderKey"
        THEN klarna_auth_type = Ok([basic_token |-> auth_type.api_key])
        ELSE klarna_auth_type = Err(FailedToObtainAuthType)

C5_Witness ==
    /\ AuthDone
    /\ auth_type.variant = "BodyKey"
    /\ klarna_auth_type = Err(FailedToObtainAuthType)

\* C6: the session response transformer replaces only the response of the
\* request context, with the Klarna session token carrying client_token and
\* session_id; every other field is unchanged.
C6_SessionResponseFrame ==
    SessionDone =>
        /\ session_result.tag = "Ok"
        /\ LET data == session_result.value
           IN  /\ data.response =
                      Ok([type |-> "SessionResponse",
                          session_token |->
                              [connector |-> "Klarna",
                               session_token |-> session_response.client_token,
                               session_id |-> session_response.session_id]])
               /\ DOMAIN data = DOMAIN router_data
               /\ \A f \in DOMAIN router_data \ {"response"} :
                      data[f] = router_data[f]

C6_Witness ==
    /\ SessionDone
    /\ session_response.client_token = "tok_2"
    /\ session_result.tag = "Ok"
    /\ session_result.value.response.value.session_token.session_token = "tok_2"
    /\ session_result.value.status = "Started"

\* C7 as stated: in every wire request produced from a request with line
\* items present, order_amount is the sum of the total_amount of its lines.
C7_AmountIsSumOfLines ==
    (/\ RequestTransformed
     /\ RequestResult.tag = "Ok"
     /\ Len(RequestResult.value.order_lines) >= 1) =>
        RequestResult.value.order_amount =
            SumTotals(RequestResult.value.order_lines)

\* C7 amended: in every wire request produced, order_amount is the amount of
\* the canonical request, copied unchanged and not recomputed from the lines.
C7_AmountIsRequestAmount ==
    (RequestTransformed /\ RequestResult.tag = "Ok") =>
        RequestResult.value.order_amount = router_data.request.amount

C7_Witness ==
    /\ SessionRequested
    /\ session_request.tag = "Ok"
    /\ router_data.request.amount = FromInt(1000)
    /\ Len(session_request.value.order_lines) = 1
    /\ session_request.value.order_lines[1].quantity = 2
    /\ session_request.value.order_lines[1].unit_price = FromInt(500)
    /\ session_request.value.order_lines[1].total_amount = FromInt(1000)
    /\ session_request.value.order_amount = FromInt(1000)

\* C8: the Normalizer never fails and returns the input amount, the input
\* reference id and the input router data.
C8_NormalizerKeepsInputs ==
    (flow = "authorize" /\ pc # "start") =>
        /\ klarna_router_data.tag = "Ok"
        /\ klarna_router_data.value.amount = router_data.request.amount
        /\ klarna_router_data.value.router_data = router_data
        /\ klarna_router_data.value.connector_request_reference_id =
               reference_id

\* C9: quantity * unit_price stays within the range of i64 for every line,
\* so each request transformer ends with a wire request or a typed error.
C9_NoOverflow ==
    RequestTransformed =>
        /\ RequestResult.tag \in {"Ok", "Err"}
        /\ router_data.request.order_details.tag = "Some" =>
               \A i \in 1..Len(router_data.request.order_details.value) :
                   FitsI64(Product(
                       router_data.request.order_details.value[i].quantity,
                       router_data.request.order_details.value[i].amount))

\* C10: when the gateway echoes the request's reference id, the wire
\* request's connector_request_reference_id is the reference id given to the
\* Normalizer, and so is the response's connector_response_reference_id.
C10_ReferenceThreaded ==
    (/\ AuthorizeDone
     /\ payments_response.connector_request_reference_id =
            payments_request.value.connector_request_reference_id) =>
        /\ payments_request.value.connector_request_reference_id =
               reference_id
        /\ authorize_result.value.response.value
               .connector_response_reference_id = Some(reference_id)
====
